---- MODULE Spec2Model ----
(***************************************************************************)
(* Breadcrumb Acronym Integrity Checker: the token classification and      *)
(* corruption-detection engine of src/app.py (analyze_file and helpers).   *)
(* Strings are TLA+ strings; a character is a string of length 1.          *)
(***************************************************************************)
EXTENDS Integers, Sequences, FiniteSets, TLC

(***************************************************************************)
(* Characters and the str methods the code uses                            *)
(***************************************************************************)
AsciiDigits == {"0", "1", "2", "3", "4", "5", "6", "7", "8", "9"}

SUBSCRIPT_DIGITS == {"₀", "₁", "₂", "₃", "₄", "₅", "₆", "₇", "₈", "₉"}
\* The source set also holds the superscripts 0 and 4..9 (U+2070, U+2074..U+2079),
\* which a string literal of this module cannot hold; the code treats all ten
\* alike, and the texts of the model use the three below.
SUPERSCRIPT_DIGITS == {"¹", "²", "³", "¹", "²", "³"}
UNIT_PREFIXES == {"mm", "cm", "km", "nm", "pm", "um", "µm", "μm"}

KNOWN_ACRONYMS ==
    {"SMS", "MMS", "API", "SDK", "CRM", "ERP", "POS", "SKU",
     "B2B", "B2C", "C2C", "D2C",
     "AI", "ML", "NLP", "LLM",
     "SEO", "SEM", "PPC", "KPI", "OKR", "ROI",
     "UX", "UI", "QA", "SLA", "ETA",
     "OTP", "PIN", "VPN", "LAN", "WAN", "WIFI", "WIFi", "WiFi",
     "GPS", "RFID", "NFC", "SIM", "ESIM",
     "PDF", "CSV", "XML", "JSON",
     "HR", "IT", "BI"}

COMMON_TITLECASE_WORDS ==
    {"And", "Or", "The", "A", "An", "Of", "To", "In", "On", "For", "With",
     "Home", "Service", "Services", "Product", "Products", "Store", "Stores",
     "Repair", "Cleaning", "Marketing", "Design", "Support", "Management"}

UpperSet == {"A", "B", "C", "D", "E", "F", "G", "H", "I", "J", "K", "L", "M",
             "N", "O", "P", "Q", "R", "S", "T", "U", "V", "W", "X", "Y", "Z"}
LowerSet == {"a", "b", "c", "d", "e", "f", "g", "h", "i", "j", "k", "l", "m",
             "n", "o", "p", "q", "r", "s", "t", "u", "v", "w", "x", "y", "z"}

\* str.isupper / str.islower / str.isdigit of one character.  Every cased
\* character of the model's texts is an ASCII letter; Python's isdigit is
\* also true of the subscript and superscript digits.
isupper(c) == c \in UpperSet
islower(c) == c \in LowerSet
DigitSet == AsciiDigits \cup SUBSCRIPT_DIGITS \cup SUPERSCRIPT_DIGITS
isdigit(c) == c \in DigitSet

\* str.upper / str.lower of one cased character.  upper is applied to tokens
\* only (ASCII letters, digits, script digits, separators); lower also to the
\* unit prefixes, whose micro signs are their own lowercase.
ToUpper ==
    "a" :> "A" @@ "b" :> "B" @@ "c" :> "C" @@ "d" :> "D" @@ "e" :> "E" @@ "f" :> "F" @@ "g" :> "G" @@
    "h" :> "H" @@ "i" :> "I" @@ "j" :> "J" @@ "k" :> "K" @@ "l" :> "L" @@ "m" :> "M" @@ "n" :> "N" @@
    "o" :> "O" @@ "p" :> "P" @@ "q" :> "Q" @@ "r" :> "R" @@ "s" :> "S" @@ "t" :> "T" @@ "u" :> "U" @@
    "v" :> "V" @@ "w" :> "W" @@ "x" :> "X" @@ "y" :> "Y" @@ "z" :> "Z"

ToLower ==
    "A" :> "a" @@ "B" :> "b" @@ "C" :> "c" @@ "D" :> "d" @@ "E" :> "e" @@ "F" :> "f" @@ "G" :> "g" @@
    "H" :> "h" @@ "I" :> "i" @@ "J" :> "j" @@ "K" :> "k" @@ "L" :> "l" @@ "M" :> "m" @@ "N" :> "n" @@
    "O" :> "o" @@ "P" :> "p" @@ "Q" :> "q" @@ "R" :> "r" @@ "S" :> "s" @@ "T" :> "t" @@ "U" :> "u" @@
    "V" :> "v" @@ "W" :> "w" @@ "X" :> "x" @@ "Y" :> "y" @@ "Z" :> "z"

upperChar(c) == IF islower(c) THEN ToUpper[c] ELSE c
lowerChar(c) == IF isupper(c) THEN ToLower[c] ELSE c

RECURSIVE upper(_)
upper(s) == IF s = "" THEN "" ELSE upperChar(SubSeq(s, 1, 1)) \o upper(SubSeq(s, 2, Len(s)))

RECURSIVE lower(_)
lower(s) == IF s = "" THEN "" ELSE lowerChar(SubSeq(s, 1, 1)) \o lower(SubSeq(s, 2, Len(s)))

\* str.islower of a whole string: at least one cased character, none uppercase.
strIsLower(s) ==
    /\ \E i \in 1..Len(s) : islower(SubSeq(s, i, i))
    /\ \A i \in 1..Len(s) : ~isupper(SubSeq(s, i, i))

startswith(s, p) == Len(s) >= Len(p) /\ SubSeq(s, 1, Len(p)) = p

Whitespace == {" ", "\t"}

\* str.strip(): leading and trailing whitespace removed.
RECURSIVE lstrip(_)
lstrip(s) == IF s # "" /\ SubSeq(s, 1, 1) \in Whitespace THEN lstrip(SubSeq(s, 2, Len(s))) ELSE s

RECURSIVE rstrip(_)
rstrip(s) == IF s # "" /\ SubSeq(s, Len(s), Len(s)) \in Whitespace THEN rstrip(SubSeq(s, 1, Len(s) - 1)) ELSE s

strip(s) == rstrip(lstrip(s))

(***************************************************************************)
(* Tokenizer: CANDIDATE_TOKEN_REGEX.findall                                *)
(***************************************************************************)
TokenChars == UpperSet \cup LowerSet \cup AsciiDigits
                \cup SUBSCRIPT_DIGITS \cup SUPERSCRIPT_DIGITS
TokenSeparators == {"-", "_", "/", "."}

IsTokenChar(s, p) == p >= 1 /\ p <= Len(s) /\ SubSeq(s, p, p) \in TokenChars

\* End of the maximal run of token characters that starts at p.
RECURSIVE RunEnd(_, _)
RunEnd(s, p) == IF IsTokenChar(s, p + 1) THEN RunEnd(s, p + 1) ELSE p

\* End of the greedy match that has consumed s[..e]: each further group is
\* one separator followed by a run of token characters.
RECURSIVE MatchEnd(_, _)
MatchEnd(s, e) ==
    IF e + 1 <= Len(s) /\ SubSeq(s, e + 1, e + 1) \in TokenSeparators /\ IsTokenChar(s, e + 2)
    THEN MatchEnd(s, RunEnd(s, e + 2))
    ELSE e

\* findall from position p: leftmost, non-overlapping matches.
RECURSIVE FindAllFrom(_, _)
FindAllFrom(s, p) ==
    IF p > Len(s) THEN <<>>
    ELSE IF IsTokenChar(s, p)
         THEN LET e == MatchEnd(s, RunEnd(s, p))
              IN  <<SubSeq(s, p, e)>> \o FindAllFrom(s, e + 1)
         ELSE FindAllFrom(s, p + 1)

extract_tokens(text) == FindAllFrom(text, 1)

\* PASCAL_CASE_SHORT.match: ^[A-Z][a-z]{1,5}$
PASCAL_CASE_SHORT(token) ==
    /\ Len(token) >= 2
    /\ Len(token) <= 6
    /\ isupper(SubSeq(token, 1, 1))
    /\ \A i \in 2..Len(token) : islower(SubSeq(token, i, i))

(***************************************************************************)
(* Classifier                                                              *)
(***************************************************************************)
is_camel_case(token) ==
    IF Len(token) >= 2 /\ isupper(SubSeq(token, 1, 1)) /\ strIsLower(SubSeq(token, 2, Len(token)))
    THEN FALSE
    ELSE /\ \E i \in 1..Len(token) : islower(SubSeq(token, i, i))
         /\ \E i \in 1..Len(token) : isupper(SubSeq(token, i, i))

looks_like_unit_prefix_camel(token) ==
    \E p \in UNIT_PREFIXES :
        /\ startswith(lower(token), lower(p))
        /\ \E i \in (Len(p) + 1)..Len(token) : isupper(SubSeq(token, i, i))

upper_count(token) == Cardinality({i \in 1..Len(token) : isupper(SubSeq(token, i, i))})
has_digit(token) == \E i \in 1..Len(token) : isdigit(SubSeq(token, i, i))
ScriptDigits == SUBSCRIPT_DIGITS \cup SUPERSCRIPT_DIGITS
has_sub_sup(token) == \E i \in 1..Len(token) : SubSeq(token, i, i) \in ScriptDigits

\* Faulty variant of is_strong_acronym: the known-term rule left out.
is_strong_acronym_NoDictionary(token) ==
    IF Len(token) < 2 THEN FALSE
    ELSE \/ upper_count(token) >= 2
         \/ (upper_count(token) >= 1 /\ has_digit(token))
         \/ has_sub_sup(token)
         \/ looks_like_unit_prefix_camel(token)
         \/ is_camel_case(token)

is_strong_acronym(token) ==
    IF Len(token) < 2 THEN FALSE
    ELSE \/ upper(token) \in KNOWN_ACRONYMS
         \/ upper_count(token) >= 2
         \/ (upper_count(token) >= 1 /\ has_digit(token))
         \/ has_sub_sup(token)
         \/ looks_like_unit_prefix_camel(token)
         \/ is_camel_case(token)

\* Counter lookup: a missing key reads as 0 and is not inserted.
Count(counter, key) == IF key \in DOMAIN counter THEN counter[key] ELSE 0

\* Faulty variant of is_corrupted_acronym: the dictionary test left out.
is_corrupted_acronym_NoDictionary(token, token_upper_seen) ==
    IF token \in COMMON_TITLECASE_WORDS THEN FALSE
    ELSE IF ~PASCAL_CASE_SHORT(token) THEN FALSE
    ELSE Count(token_upper_seen, upper(token)) > 0 /\ token # upper(token)

\* Faulty variant of is_corrupted_acronym: the whitelist test left out.
is_corrupted_acronym_NoWhitelist(token, token_upper_seen) ==
    IF ~PASCAL_CASE_SHORT(token) THEN FALSE
    ELSE IF upper(token) \in KNOWN_ACRONYMS THEN TRUE
    ELSE Count(token_upper_seen, upper(token)) > 0 /\ token # upper(token)

is_corrupted_acronym(token, token_upper_seen) ==
    IF token \in COMMON_TITLECASE_WORDS THEN FALSE
    ELSE IF ~PASCAL_CASE_SHORT(token) THEN FALSE
    ELSE IF upper(token) \in KNOWN_ACRONYMS THEN TRUE
    ELSE Count(token_upper_seen, upper(token)) > 0 /\ token # upper(token)

(***************************************************************************)
(* Columns, addresses, breadcrumbs                                         *)
(***************************************************************************)
LEVEL_COLUMNS ==
    <<"Level 1", "Level 2", "Level 3", "Level 4", "Level 5", "Level 6",
      "Level 7", "Level 8", "Level 9", "Level 10", "Level 11">>

EXCEL_COLUMN_MAP ==
    "Level 1" :> "B" @@ "Level 2" :> "C" @@ "Level 3" :> "D" @@ "Level 4" :> "E" @@
    "Level 5" :> "F" @@ "Level 6" :> "G" @@ "Level 7" :> "H" @@ "Level 8" :> "I" @@
    "Level 9" :> "J" @@ "Level 10" :> "K" @@ "Level 11" :> "L"

\* A cell of the frame is <<>> (NaN, pd.isna) or <<text>>.
NaN == <<>>
notna(v) == v # NaN

\* row.get(col): None (NaN) for a column the frame lacks.
RowGet(row, col) == IF col \in DOMAIN row THEN row[col] ELSE NaN

\* str(n) of a natural number, as the f-string prints it.
RECURSIVE IntStr(_)
IntStr(n) ==
    IF n < 10 THEN SubSeq("0123456789", n + 1, n + 1)
    ELSE IntStr(n \div 10) \o SubSeq("0123456789", (n % 10) + 1, (n % 10) + 1)

RECURSIVE Join(_, _)
Join(sep, parts) ==
    IF parts = <<>> THEN ""
    ELSE IF Len(parts) = 1 THEN parts[1]
    ELSE parts[1] \o sep \o Join(sep, Tail(parts))

\* The stripped, non-empty level values of the row, levels k.. in order.
RECURSIVE BreadcrumbParts(_, _)
BreadcrumbParts(row, k) ==
    IF k > Len(LEVEL_COLUMNS) THEN <<>>
    ELSE LET v == RowGet(row, LEVEL_COLUMNS[k])
             here == IF notna(v) /\ strip(v[1]) # "" THEN <<strip(v[1])>> ELSE <<>>
         IN  here \o BreadcrumbParts(row, k + 1)

build_breadcrumb(row) == Join(" > ", BreadcrumbParts(row, 1))


(***************************************************************************)
(* Pass 1: the frequency index                                             *)
(***************************************************************************)
\* token_upper_seen[key] += 1
Increment(counter, key) ==
    [k \in DOMAIN counter \cup {key} |-> IF k = key THEN Count(counter, key) + 1 ELSE counter[k]]

\* Faulty variant of CountTokens: only all-uppercase tokens are counted.
RECURSIVE CountTokens_UppercaseOnly(_, _)
CountTokens_UppercaseOnly(counter, tokens) ==
    IF tokens = <<>> THEN counter
    ELSE CountTokens_UppercaseOnly(
             IF Head(tokens) = upper(Head(tokens))
             THEN Increment(counter, Head(tokens)) ELSE counter,
             Tail(tokens))

RECURSIVE CountTokens(_, _)
CountTokens(counter, tokens) ==
    IF tokens = <<>> THEN counter
    ELSE CountTokens(Increment(counter, upper(Head(tokens))), Tail(tokens))

\* The inner loop of pass 1 over the levels k.. of one row (untrimmed text).
RECURSIVE CountRow(_, _, _)
CountRow(counter, row, k) ==
    IF k > Len(LEVEL_COLUMNS) THEN counter
    ELSE LET v == RowGet(row, LEVEL_COLUMNS[k])
         IN  CountRow(IF notna(v) THEN CountTokens(counter, extract_tokens(v[1])) ELSE counter,
                      row, k + 1)

(***************************************************************************)
(* Pass 2: classification and corruption detection                         *)
(***************************************************************************)
\* Faulty variant of CellAddress: the header row is not skipped.
CellAddress_NoHeaderRow(col, row_num) == EXCEL_COLUMN_MAP[col] \o IntStr(row_num - 1)

CellAddress(col, row_num) == EXCEL_COLUMN_MAP[col] \o IntStr(row_num)

DetectedRow(token, cell_address, cell_value, breadcrumb) ==
    [term |-> token, cell_address |-> cell_address,
     cell_value |-> cell_value, breadcrumb |-> breadcrumb]

CorruptedRow(token, cell_address, cell_value, breadcrumb) ==
    [corrupted_term |-> token, suggested_fix |-> upper(token), cell_address |-> cell_address,
     cell_value |-> cell_value, breadcrumb |-> breadcrumb]

\* The loop over the tokens of one cell: the rows appended to both lists.
RECURSIVE ScanTokens(_, _, _, _, _, _)
ScanTokens(acc, tokens, cell_address, cell_value, breadcrumb, token_upper_seen) ==
    IF tokens = <<>> THEN acc
    ELSE LET token == Head(tokens)
             d == IF is_strong_acronym(token)
                  THEN <<DetectedRow(token, cell_address, cell_value, breadcrumb)>> ELSE <<>>
             c == IF is_corrupted_acronym(token, token_upper_seen)
                  THEN <<CorruptedRow(token, cell_address, cell_value, breadcrumb)>> ELSE <<>>
         IN  ScanTokens([detected |-> acc.detected \o d, corrupted |-> acc.corrupted \o c],
                        Tail(tokens), cell_address, cell_value, breadcrumb, token_upper_seen)

\* The loop of pass 2 over the levels k.. of the row with index idx.
RECURSIVE ScanRow(_, _, _, _, _)
ScanRow(acc, row, idx, k, token_upper_seen) ==
    IF k > Len(LEVEL_COLUMNS) THEN acc
    ELSE LET col == LEVEL_COLUMNS[k]
             v == RowGet(row, col)
             row_num == idx + 2
             cell_value == strip(v[1])
         IN  IF ~notna(v) \/ cell_value = ""
             THEN ScanRow(acc, row, idx, k + 1, token_upper_seen)
             ELSE ScanRow(ScanTokens(acc, extract_tokens(cell_value), CellAddress(col, row_num),
                                     cell_value, build_breadcrumb(row), token_upper_seen),
                          row, idx, k + 1, token_upper_seen)

(***************************************************************************)
(* Aggregation                                                             *)
(***************************************************************************)
\* The values of the subset columns of one row.
KeyOf(r, subset) == [n \in 1..Len(subset) |-> r[subset[n]]]

\* Faulty variant of drop_duplicates: the first subset column alone is the key.
drop_duplicates_FirstColumnOnly(rows, subset) ==
    LET kept[n \in 0..Len(rows)] ==
            IF n = 0 THEN <<>>
            ELSE IF \E j \in 1..(n - 1) : rows[j][subset[1]] = rows[n][subset[1]]
                 THEN kept[n - 1]
                 ELSE Append(kept[n - 1], rows[n])
    IN  kept[Len(rows)]

\* DataFrame.drop_duplicates(subset): the first row of each key is kept.
drop_duplicates(rows, subset) ==
    LET kept[n \in 0..Len(rows)] ==
            IF n = 0 THEN <<>>
            ELSE IF \E j \in 1..(n - 1) : KeyOf(rows[j], subset) = KeyOf(rows[n], subset)
                 THEN kept[n - 1]
                 ELSE Append(kept[n - 1], rows[n])
    IN  kept[Len(rows)]

\* Stable sort of (term, count) entries by descending count.
RECURSIVE SortByCountDesc(_)
SortByCountDesc(entries) ==
    IF entries = <<>> THEN <<>>
    ELSE LET i == CHOOSE i \in 1..Len(entries) :
                      /\ \A j \in 1..Len(entries) : entries[j].count <= entries[i].count
                      /\ \A j \in 1..(i - 1) : entries[j].count < entries[i].count
         IN  <<entries[i]>> \o
             SortByCountDesc(SubSeq(entries, 1, i - 1) \o SubSeq(entries, i + 1, Len(entries)))

\* The distinct terms in first-seen order (the insertion order of a Counter).
FirstSeen(terms) ==
    LET kept[n \in 0..Len(terms)] ==
            IF n = 0 THEN <<>>
            ELSE IF \E j \in 1..(n - 1) : terms[j] = terms[n]
                 THEN kept[n - 1]
                 ELSE Append(kept[n - 1], terms[n])
    IN  kept[Len(terms)]

\* Counter(terms).most_common(): by descending count, ties in first-seen order.
most_common(terms) ==
    LET first == FirstSeen(terms)
    IN  SortByCountDesc([n \in 1..Len(first) |->
            [term |-> first[n],
             count |-> Cardinality({j \in 1..Len(terms) : terms[j] = first[n]})]])

\* The column df["term"] / df["corrupted_term"].
DetectedTerms(rows) == [n \in 1..Len(rows) |-> rows[n].term]
CorruptedTerms(rows) == [n \in 1..Len(rows) |-> rows[n].corrupted_term]

(***************************************************************************)
(* analyze_file as a state machine: one step per loop iteration over rows  *)
(***************************************************************************)
VARIABLES columns, grid, pc, i, token_upper_seen, detected, corrupted, result, error

vars == <<columns, grid, pc, i, token_upper_seen, detected, corrupted, result, error>>

Range(f) == {f[k] : k \in DOMAIN f}
LevelSet == Range(LEVEL_COLUMNS)

\* Faulty variant of Missing: only the first missing level is reported.
Missing_FirstOnly(cols) ==
    LET all == SelectSeq(LEVEL_COLUMNS, LAMBDA c : c \notin Range(cols))
    IN  IF all = <<>> THEN <<>> ELSE <<all[1]>>

\* missing = [c for c in LEVEL_COLUMNS if c not in df.columns]
Missing(cols) == SelectSeq(LEVEL_COLUMNS, LAMBDA c : c \notin Range(cols))

NoTables == [detected_summary |-> <<>>, detected_df |-> <<>>,
             corrupted_summary |-> <<>>, corrupted_df |-> <<>>]
NoError == [missing |-> <<>>, found |-> <<>>]

\* Bounds and inputs -------------------------------------------------------
MaxRows == 2

\* One text per level, for the row that fills all eleven levels.
LevelTexts ==
    <<"Sms", "SMS", "Mobile Phones", "MOBILE", "Home", "HOME",
      "5G And 5G", "2² H₂O", " Api ", "Wi-Fi mmWave", "USB-C Store A">>

\* A row over the eleven levels holding texts[k] at level k; the levels past
\* the end of texts and the marker "<NaN>" are missing values.
MakeRow(texts) ==
    [c \in LevelSet |->
        LET k == CHOOSE k \in 1..Len(LEVEL_COLUMNS) : LEVEL_COLUMNS[k] = c
        IN  IF k <= Len(texts) /\ texts[k] # "<NaN>" THEN <<texts[k]>> ELSE NaN]

RowPool ==
    {MakeRow(LevelTexts),
     MakeRow(<<"Electronics", "Mobile Phones", "iPhone 13">>),
     MakeRow(<<"SMS", "  ", "Sms">>),
     MakeRow(<<"Home", "HOME Store">>),
     MakeRow(<<"5G", "<NaN>", "5G">>),
     MakeRow(<<"Sms", "<NaN>", "<NaN>", "Sms Sms">>),
     MakeRow(<<"<NaN>", "MOBILE">>),
     MakeRow(<<>>)}

\* Frames: the level columns, with or without a leading id column, and
\* frames that lack some level columns.
ColumnSets ==
    {LEVEL_COLUMNS,
     <<"ID">> \o LEVEL_COLUMNS,
     SubSeq(LEVEL_COLUMNS, 1, 9),
     <<"ID">> \o SubSeq(LEVEL_COLUMNS, 1, 2) \o SubSeq(LEVEL_COLUMNS, 4, 11),
     <<"ID">>}

Frame(cols, rows) ==
    [n \in 1..Len(rows) |->
        [c \in Range(cols) |-> IF c \in LevelSet THEN rows[n][c] ELSE <<"SKU">>]]

Grids == UNION {[1..n -> RowPool] : n \in 0..MaxRows}

Init ==
    /\ columns \in ColumnSets
    /\ \E rows \in Grids : grid = Frame(columns, rows)
    /\ pc = "start"
    /\ i = 0
    /\ token_upper_seen = <<>>
    /\ detected = <<>>
    /\ corrupted = <<>>
    /\ result = NoTables
    /\ error = NoError

\* Lines 160-167: the schema check fails.
RaiseMissingColumns ==
    /\ pc = "start"
    /\ Missing(columns) # <<>>
    /\ pc' = "error"
    /\ error' = [missing |-> Missing(columns), found |-> columns]
    /\ UNCHANGED <<columns, grid, i, token_upper_seen, detected, corrupted, result>>

\* Line 169: the schema check passes and the counter is created.
BeginPass1 ==
    /\ pc = "start"
    /\ Missing(columns) = <<>>
    /\ pc' = "pass1"
    /\ i' = 0
    /\ token_upper_seen' = <<>>
    /\ UNCHANGED <<columns, grid, detected, corrupted, result, error>>

\* Lines 171-176: one row of the first loop.
Pass1Row ==
    /\ pc = "pass1"
    /\ i < Len(grid)
    /\ token_upper_seen' = CountRow(token_upper_seen, grid[i + 1], 1)
    /\ i' = i + 1
    /\ UNCHANGED <<columns, grid, pc, detected, corrupted, result, error>>

\* Faulty variant of BeginPass2: the first loop stops one row short.
BeginPass2_OneRowShort ==
    /\ pc = "pass1"
    /\ i + 1 >= Len(grid)
    /\ pc' = "pass2"
    /\ i' = 0
    /\ detected' = <<>>
    /\ corrupted' = <<>>
    /\ UNCHANGED <<columns, grid, token_upper_seen, result, error>>

\* Line 178: the first loop is exhausted.
BeginPass2 ==
    /\ pc = "pass1"
    /\ i = Len(grid)
    /\ pc' = "pass2"
    /\ i' = 0
    /\ detected' = <<>>
    /\ corrupted' = <<>>
    /\ UNCHANGED <<columns, grid, token_upper_seen, result, error>>

\* Lines 180-211: one row of the second loop; idx is the 0-based row index.
Pass2Row ==
    /\ pc = "pass2"
    /\ i < Len(grid)
    /\ LET acc == ScanRow([detected |-> detected, corrupted |-> corrupted],
                          grid[i + 1], i, 1, token_upper_seen)
       IN  /\ detected' = acc.detected
           /\ corrupted' = acc.corrupted
    /\ i' = i + 1
    /\ UNCHANGED <<columns, grid, pc, token_upper_seen, result, error>>

\* Lines 213-226: deduplication, the summaries, the return.
Finish ==
    /\ pc = "pass2"
    /\ i = Len(grid)
    /\ LET detected_df == drop_duplicates(detected, <<"term", "cell_address">>)
           corrupted_df == drop_duplicates(corrupted, <<"corrupted_term", "cell_address">>)
       IN  result' = [detected_summary |-> most_common(DetectedTerms(detected_df)),
                      detected_df |-> detected_df,
                      corrupted_summary |-> most_common(CorruptedTerms(corrupted_df)),
                      corrupted_df |-> corrupted_df]
    /\ pc' = "done"
    /\ UNCHANGED <<columns, grid, i, token_upper_seen, detected, corrupted, error>>

Next ==
    \/ RaiseMissingColumns
    \/ BeginPass1
    \/ Pass1Row
    \/ BeginPass2
    \/ Pass2Row
    \/ Finish

Spec == Init /\ [][Next]_vars

(***************************************************************************)
(* Properties                                                              *)
(***************************************************************************)
\* The cells of the frame: <<n, k>> is data row n (1-based) at "Level k".
Positions == {<<n, k>> : n \in 1..Len(grid), k \in 1..Len(LEVEL_COLUMNS)}
RawCell(pos) == RowGet(grid[pos[1]], LEVEL_COLUMNS[pos[2]])
RawTokens(pos) == IF notna(RawCell(pos)) THEN extract_tokens(RawCell(pos)[1]) ELSE <<>>
CellTokens(pos) == IF notna(RawCell(pos)) THEN Range(extract_tokens(strip(RawCell(pos)[1]))) ELSE {}
GridTokens == UNION {CellTokens(pos) : pos \in Positions}
\* The address the documentation gives the cell: letter k of B..L, then i + 2.
ExpectedAddress(pos) == SubSeq("BCDEFGHIJKL", pos[2], pos[2]) \o ToString(pos[1] + 1)
\* Rows whose pass-2 iteration has run.
Scanned(pos) == pc = "done" \/ (pc = "pass2" /\ pos[1] <= i)
IsCorruptedAt(t, pos) ==
    \E j \in 1..Len(corrupted) :
        corrupted[j].corrupted_term = t /\ corrupted[j].cell_address = ExpectedAddress(pos)
IsDetectedAt(t, pos) ==
    \E j \in 1..Len(detected) :
        detected[j].term = t /\ detected[j].cell_address = ExpectedAddress(pos)

\* C1 (as stated): a token is recorded as a corruption instance only if it is
\* a short TitleCase token that is in the known-acronym dictionary or whose
\* all-uppercase form occurs as a token of some cell of the grid.
C1_OnlyIfSeenElsewhere ==
    \A j \in 1..Len(corrupted) :
        LET t == corrupted[j].corrupted_term
        IN  /\ PASCAL_CASE_SHORT(t)
            /\ upper(t) \in KNOWN_ACRONYMS \/ upper(t) \in GridTokens

\* C9: in pass 2 the index holds a count >= 1 for the uppercased form of every
\* token of every cell (pass 1 counted the same tokens, trimmed or not), so
\* every token of the shape [A-Z][a-z]{1,5} that is not whitelisted passes the
\* frequency condition and is recorded as corrupted at its cell.
C9_SelfCounted ==
    \A pos \in Positions :
        /\ Range(RawTokens(pos)) = CellTokens(pos)
        /\ pc \in {"pass2", "done"} =>
              \A t \in CellTokens(pos) : Count(token_upper_seen, upper(t)) >= 1
        /\ Scanned(pos) =>
              \A t \in CellTokens(pos) :
                  PASCAL_CASE_SHORT(t) /\ t \notin COMMON_TITLECASE_WORDS
                     => /\ Count(token_upper_seen, upper(t)) > 0 /\ t # upper(t)
                        /\ IsCorruptedAt(t, pos)

\* C9 witness: the scan has recorded 'Mobile' as corrupted in a grid that has
\* no token 'MOBILE' and 'MOBILE' is not a known acronym.
C9_Witness ==
    /\ pc = "done"
    /\ "Mobile" \in GridTokens
    /\ "MOBILE" \notin GridTokens
    /\ "MOBILE" \notin KNOWN_ACRONYMS
    /\ \E j \in 1..Len(result.corrupted_df) : result.corrupted_df[j].corrupted_term = "Mobile"

\* Pass 1 has run to its end; a grid with 'SMS' and 'Sms' in two cells.
IndexComplete == pc \in {"pass2", "done"}
SmsGrid ==
    \E p1, p2 \in Positions : p1 # p2 /\ "SMS" \in CellTokens(p1) /\ "Sms" \in CellTokens(p2)

C8_WhitelistSuppressed ==
    /\ \A w \in COMMON_TITLECASE_WORDS : ~is_corrupted_acronym(w, token_upper_seen)
    /\ \A j \in 1..Len(corrupted) : corrupted[j].corrupted_term \notin COMMON_TITLECASE_WORDS
    /\ \A j \in 1..Len(result.corrupted_df) :
          result.corrupted_df[j].corrupted_term \notin COMMON_TITLECASE_WORDS

\* C8 witness: a finished scan of a grid holding 'Home' in one cell and
\* 'HOME' in another, so that the index counts 'HOME'.
C8_Witness ==
    /\ pc = "done"
    /\ \E p1, p2 \in Positions : p1 # p2 /\ "Home" \in CellTokens(p1) /\ "HOME" \in CellTokens(p2)
    /\ PASCAL_CASE_SHORT("Home")
    /\ Count(token_upper_seen, "HOME") >= 2

\* C10: after a scan every dictionary-based row of the corruption table has a
\* row with the same term and cell address in the detected table, and a row
\* flagged through the frequency rule alone has none.
C10_DictionaryRowsAreDetected ==
    pc = "done" =>
        \A j \in 1..Len(result.corrupted_df) :
            LET r == result.corrupted_df[j]
                matched == \E m \in 1..Len(result.detected_df) :
                               /\ result.detected_df[m].term = r.corrupted_term
                               /\ result.detected_df[m].cell_address = r.cell_address
            IN  matched <=> upper(r.corrupted_term) \in KNOWN_ACRONYMS

\* C10 witness: a finished scan whose corruption table has a dictionary-based
\* row and a frequency-based row.
C10_Witness ==
    /\ pc = "done"
    /\ \E j \in 1..Len(result.corrupted_df) :
          upper(result.corrupted_df[j].corrupted_term) \in KNOWN_ACRONYMS
    /\ \E j \in 1..Len(result.corrupted_df) :
          upper(result.corrupted_df[j].corrupted_term) \notin KNOWN_ACRONYMS

\* The counts of the whole grid, defined on the set of token occurrences:
\* no order of rows or cells enters it.
Occurrences ==
    UNION {LET tokens == RawTokens(pos)
           IN  {<<pos, j, upper(tokens[j])>> : j \in 1..Len(tokens)} : pos \in Positions}
WholeGridCount ==
    LET occ == Occurrences
    IN  [key \in {o[3] : o \in occ} |-> Cardinality({o \in occ : o[3] = key})]

\* Pass 1 run over the first n rows of g (the index of the rows before is
\* computed before row n is counted).
RECURSIVE IndexOfRows(_, _)
IndexOfRows(g, n) ==
    IF n = 0 THEN <<>>
    ELSE LET before == IndexOfRows(g, n - 1)
         IN  IF DOMAIN before = {} THEN CountRow(<<>>, g[n], 1) ELSE CountRow(before, g[n], 1)
Reverse(g) == [n \in 1..Len(g) |-> g[Len(g) + 1 - n]]

DecidedAgainst(whole) ==
    /\ IndexComplete => token_upper_seen = whole
    /\ \A pos \in Positions :
          Scanned(pos) =>
              \A t \in CellTokens(pos) :
                  IsCorruptedAt(t, pos) <=> is_corrupted_acronym(t, whole)

\* C4: pass 1 completes before pass 2 decides anything and the index does not
\* change afterwards: throughout pass 2 the index equals the counts of the
\* whole grid, which are also the counts pass 1 yields on the rows in reverse
\* order, and every corruption decision made so far is the one taken against
\* those counts; before pass 2 nothing has been recorded.
C4_BarrierBeforeDecisions ==
    /\ pc \in {"start", "pass1"} => detected = <<>> /\ corrupted = <<>>
    /\ IndexComplete => token_upper_seen = IndexOfRows(Reverse(grid), Len(grid))
    /\ DecidedAgainst(WholeGridCount)

\* C4 witness: pass 2 has scanned only the first row and flagged its 'Mobile'
\* while the index already counts the 'MOBILE' of the second row.
C4_Witness ==
    /\ pc = "pass2" /\ i = 1 /\ Len(grid) = 2
    /\ \E k \in 1..Len(LEVEL_COLUMNS) :
          "Mobile" \in CellTokens(<<1, k>>) /\ IsCorruptedAt("Mobile", <<1, k>>)
    /\ \A k \in 1..Len(LEVEL_COLUMNS) : "MOBILE" \notin CellTokens(<<1, k>>)
    /\ \E k \in 1..Len(LEVEL_COLUMNS) : "MOBILE" \in CellTokens(<<2, k>>)
    /\ Count(token_upper_seen, "MOBILE") = 2

\* The checks of C5 on one instance table and its summary.
SumCounts(summary) ==
    LET sum[n \in 0..Len(summary)] == IF n = 0 THEN 0 ELSE sum[n - 1] + summary[n].count
    IN  sum[Len(summary)]

TableCounted(list, df, summary, Term(_)) ==
    /\ \A a, b \in 1..Len(df) :
          a # b => ~(Term(df[a]) = Term(df[b]) /\ df[a].cell_address = df[b].cell_address)
    /\ \A j \in 1..Len(list) :
          \E a \in 1..Len(df) :
              Term(df[a]) = Term(list[j]) /\ df[a].cell_address = list[j].cell_address
    /\ \A a \in 1..Len(df) : \E e \in 1..Len(summary) : summary[e].term = Term(df[a])
    /\ \A e, f \in 1..Len(summary) : e # f => summary[e].term # summary[f].term
    /\ \A e \in 1..Len(summary) :
          summary[e].count =
              Cardinality({list[j].cell_address : j \in {j \in 1..Len(list) : Term(list[j]) = summary[e].term}})
    /\ \A e \in 1..Len(summary) : summary[e].count >= 1
    /\ SumCounts(summary) = Len(df)

TermOf(r) == r.term
CorruptedTermOf(r) == r.corrupted_term

\* C5: after a scan each instance table has at most one row per (term, cell
\* address), every summary count is the number of distinct cells in which the
\* term was matched, and the counts sum to the number of rows of the table.
C5_CountsDistinctCells ==
    pc = "done" =>
        /\ TableCounted(detected, result.detected_df, result.detected_summary, TermOf)
        /\ TableCounted(corrupted, result.corrupted_df, result.corrupted_summary, CorruptedTermOf)

\* C5 witness: a term matched twice in one cell and also in another cell:
\* three occurrences or more, counted as the number of cells.
C5_Witness ==
    /\ pc = "done"
    /\ \E e \in 1..Len(result.detected_summary) :
          LET t == result.detected_summary[e].term
          IN  /\ result.detected_summary[e].count >= 2
              /\ \E a, b \in 1..Len(detected) :
                    a # b /\ detected[a].term = t /\ detected[b].term = t
                          /\ detected[a].cell_address = detected[b].cell_address
              /\ Cardinality({j \in 1..Len(detected) : detected[j].term = t})
                    > result.detected_summary[e].count

\* The level columns the frame lacks.
AbsentLevels == LevelSet \ Range(columns)

\* C6: when a level column is absent the scan fails before any cell is
\* tokenized: the error lists exactly the absent level names, in level order,
\* and all the columns found; no index is built and no table is returned.
\* With only 'Level 1'..'Level 9' the missing list is Level 10, Level 11.
C6_SchemaErrorBeforeAnyWork ==
    /\ AbsentLevels # {} =>
          /\ pc \in {"start", "error"}
          /\ token_upper_seen = <<>> /\ i = 0
          /\ detected = <<>> /\ corrupted = <<>> /\ result = NoTables
    /\ AbsentLevels = {} => pc # "error" /\ error = NoError
    /\ pc = "error" =>
          /\ error.found = columns
          /\ Range(error.missing) = AbsentLevels
          /\ \A a, b \in 1..Len(error.missing) :
                a < b => \E ka, kb \in 1..Len(LEVEL_COLUMNS) :
                            /\ ka < kb
                            /\ LEVEL_COLUMNS[ka] = error.missing[a]
                            /\ LEVEL_COLUMNS[kb] = error.missing[b]
          /\ columns = SubSeq(LEVEL_COLUMNS, 1, 9) => error.missing = <<"Level 10", "Level 11">>

\* C6 witness: a frame with data rows and only Level 1..Level 9 has failed
\* with Level 10 and Level 11 reported missing.
C6_Witness ==
    /\ pc = "error"
    /\ Len(grid) >= 1
    /\ columns = SubSeq(LEVEL_COLUMNS, 1, 9)
    /\ Len(error.missing) = 2

\* The (term, address, value) triples a list of instance rows must come from.
FromItsCell(term, r) ==
    \E pos \in Positions :
        /\ notna(RawCell(pos))
        /\ r.cell_address = ExpectedAddress(pos)
        /\ r.cell_value = strip(RawCell(pos)[1])
        /\ term \in CellTokens(pos)

ElectronicsRow == MakeRow(<<"Electronics", "Mobile Phones", "iPhone 13">>)
FirstRowIsElectronics ==
    /\ Len(grid) >= 1
    /\ \A k \in 1..Len(LEVEL_COLUMNS) :
          RowGet(grid[1], LEVEL_COLUMNS[k]) = ElectronicsRow[LEVEL_COLUMNS[k]]

\* C7: every instance row carries the address of the cell its token was found
\* in, letter k of B..L followed by i + 2 for level k of 0-based row i; two
\* cells never share an address; 'iPhone' in Level 3 of row 0 is reported at
\* D2 and that row yields no other detected instance.
C7_AddressOfItsCell ==
    /\ \A j \in 1..Len(detected) : FromItsCell(detected[j].term, detected[j])
    /\ \A j \in 1..Len(corrupted) : FromItsCell(corrupted[j].corrupted_term, corrupted[j])
    /\ \A pos \in Positions :
          /\ CellAddress(LEVEL_COLUMNS[pos[2]], (pos[1] - 1) + 2) = ExpectedAddress(pos)
          /\ \A other \in Positions : other # pos => ExpectedAddress(other) # ExpectedAddress(pos)
    /\ pc = "done" /\ FirstRowIsElectronics =>
          /\ \E j \in 1..Len(result.detected_df) :
                result.detected_df[j] =
                    [term |-> "iPhone", cell_address |-> "D2", cell_value |-> "iPhone 13",
                     breadcrumb |-> "Electronics > Mobile Phones > iPhone 13"]
          /\ \A j \in 1..Len(result.detected_df) :
                result.detected_df[j].cell_address \in {ExpectedAddress(<<1, k>>) : k \in 1..Len(LEVEL_COLUMNS)}
                   => result.detected_df[j].term = "iPhone"

\* C7 witness: a finished scan of two rows, the first the Electronics row,
\* with 'iPhone' reported at D2 and an instance of the second row in column L.
C7_Witness ==
    /\ pc = "done"
    /\ FirstRowIsElectronics
    /\ \E j \in 1..Len(result.detected_df) :
          result.detected_df[j].term = "iPhone" /\ result.detected_df[j].cell_address = "D2"
    /\ \E j \in 1..Len(result.detected_df) : result.detected_df[j].cell_address = "L3"

\* The six rules as the documentation states them.
Letters == UpperSet \cup LowerSet
HasUpper(t) == \E n \in 1..Len(t) : SubSeq(t, n, n) \in UpperSet
HasLower(t) == \E n \in 1..Len(t) : SubSeq(t, n, n) \in LowerSet
StatedRules(t) ==
    /\ Len(t) >= 2
    /\ \/ upper(t) \in KNOWN_ACRONYMS
       \/ Cardinality({n \in 1..Len(t) : SubSeq(t, n, n) \in UpperSet}) >= 2
       \/ HasUpper(t) /\ \E n \in 1..Len(t) : SubSeq(t, n, n) \in AsciiDigits
       \/ /\ \E n \in 1..Len(t) : SubSeq(t, n, n) \in SUBSCRIPT_DIGITS \cup SUPERSCRIPT_DIGITS
          /\ \E n \in 1..Len(t) : SubSeq(t, n, n) \in Letters
       \/ \E p \in UNIT_PREFIXES :
             /\ Len(t) >= Len(p) /\ lower(SubSeq(t, 1, Len(p))) = p
             /\ HasUpper(SubSeq(t, Len(p) + 1, Len(t)))
       \/ /\ HasLower(t) /\ HasUpper(t)
          /\ ~(SubSeq(t, 1, 1) \in UpperSet /\ \A n \in 2..Len(t) : SubSeq(t, n, n) \in LowerSet)

\* C3 (as stated): a token of a scanned cell is detected exactly when it has
\* length >= 2 and one of the six stated rules holds, rule 4 asking for a
\* subscript/superscript digit and an alphabetic character.
C3_ExactlyTheSixRules ==
    \A pos \in Positions :
        Scanned(pos) =>
            \A t \in CellTokens(pos) :
                /\ is_strong_acronym(t) <=> StatedRules(t)
                /\ IsDetectedAt(t, pos) <=> StatedRules(t)

====
